---- MODULE Spec2Model ----
(***************************************************************************)
(* A model of the item-transport coordinator: the machine store with its   *)
(* liveness sweep (backend/peripheral_discovery.py), the polling protocol  *)
(* handlers and the owner-facing route handlers (backend/routes.py) over   *)
(* the tables of backend/models.py.                                        *)
(*                                                                         *)
(* Time is counted in units of one sweep interval (30 s): the clock `now`  *)
(* stands for datetime.utcnow(), PERIPHERAL_DISCOVERY_INTERVAL = 30 s is 1 *)
(* unit and MACHINE_TIMEOUT = 60 s is 2 units.  Timestamps are compared as *)
(* integers, as their ISO strings compare in the code.                     *)
(*                                                                         *)
(* Table rows are kept in sequences indexed by the AUTOINCREMENT id.  The  *)
(* connection never enables foreign keys, so no delete cascades.           *)
(* api_keys.last_used, written by APIKey.verify, is not part of the state. *)
(***************************************************************************)
EXTENDS Integers, Sequences, FiniteSets, TLC

\* ---------------------------------------------------------------- bounds
MaxTime == 4
MaxMachines == 1
MaxThreads == 2
MaxRequestThreads == 2
MaxRoutes == 1

\* ----------------------------------------------------- program constants
PERIPHERAL_DISCOVERY_INTERVAL == 1
MACHINE_TIMEOUT == 2

\* ------------------------------------------------------- fixed base data
\* The accounts (users.id) and their credentials (api_keys.id -> user_id).
Users == {1, 2}
KeyOwner == (1 :> 1) @@ (2 :> 2)
Keys == DOMAIN KeyOwner
NoId == 0       \* an id that is absent from the request (None) or NULL
NoKey == 0      \* no credential presented
BadKey == 9     \* a credential no api_keys row matches
NoUser == 0     \* no session
Threads == 1..MaxThreads
RequestThreads == 1..MaxRequestThreads

None == "None"   \* Python's None in a text field
Names == {"turtle"}
PeriphNames == {"chest"}
PeripheralIdInputs == 0..(Cardinality(Keys) * Cardinality(PeriphNames) + 1)
RouteIdInputs == 1..(MaxRoutes + 1)
ItemNames == {"iron_ingot"}
NoCall == [user_id |-> NoUser, api_key_id |-> NoKey, name |-> None, existing |-> NoId]
NoRoute == [user_id |-> NoUser, name |-> None, source_peripheral_id |-> NoId,
            dest_peripheral_id |-> NoId, item_filter |-> None, enabled |-> 0,
            created_at |-> 0]
StatusInputs == {"online", "offline", "degraded"}
MachineIdInputs == 0..(MaxMachines + 1)
AllMachineIdInputs == 1..(Cardinality(Keys) + 1)
SessionInputs == Users \cup {NoUser}

VARIABLES
    now,                \* datetime.utcnow()
    machines,           \* table machines, row id = index
    peripherals,        \* table peripherals, row id = index
    routes,             \* table routes, row id = index; a deleted row is NoRoute
    route_items,        \* table route_items, rows <<route_id, item_name>> in id order
    running,            \* PeripheralDiscovery.running
    pc,                 \* per sweep thread: where _discovery_loop stands
    timeout_threshold,  \* per sweep thread: local of _discover_peripherals
    fetched,            \* per sweep thread: the rows cursor.fetchall() returned
    current_time,       \* per sweep thread: local of _discover_peripherals
    idx,                \* per sweep thread: position of the for loop in fetched
    wake,               \* per sweep thread: when time.sleep returns
    resp,               \* the last handler's request and response
    item_input,         \* fuzzy_match_item: the argument item_input
    item_list,          \* fuzzy_match_item: the argument item_list
    matched,            \* fuzzy_match_item: <<>> until it returns, then <<its value>>
    filtered,           \* filter_items_by_name: <<>> until it returns, then <<its value>>
    thread,             \* PeripheralDiscovery.thread: the thread last started, 0 for None
    joining,            \* the caller of stop() waits in self.thread.join(timeout=5)
    pending             \* per request thread: the register call between its SELECT and its write

db == <<machines, peripherals, routes, route_items>>
sweep == <<running, pc, timeout_threshold, fetched, current_time, idx, wake>>
matcher == <<item_input, item_list, matched, filtered>>
service == <<thread, joining>>
vars == <<now, machines, peripherals, routes, route_items, running, pc,
          timeout_threshold, fetched, current_time, idx, wake, resp,
          item_input, item_list, matched, filtered, thread, joining, pending>>

\* ------------------------------------------------------------- responses
\* op: the handler; user: the authenticated account; target: the machine or
\* route id of the request; code, error, body: the HTTP response.
Reply(op, user, target, code, error, body) ==
    resp' = [op |-> op, user |-> user, target |-> target, code |-> code,
             error |-> error, body |-> body]

\* ------------------------------------------------------------------ auth
\* auth.py api_key_required: the conditional expression binds weaker than
\* `or`, so the header is read only when the request body is JSON.
PresentedKey(req) ==
    IF req.is_json
    THEN (IF req.header # NoKey THEN req.header ELSE req.body_key)
    ELSE NoKey

APIKey_verify(key) ==
    IF key \in Keys
    THEN [ok |-> TRUE, user_id |-> KeyOwner[key], id |-> key, error |-> ""]
    ELSE [ok |-> FALSE, user_id |-> NoUser, id |-> NoKey, error |-> "Invalid API key"]

api_key_required(req) ==
    IF PresentedKey(req) = NoKey
    THEN [ok |-> FALSE, user_id |-> NoUser, id |-> NoKey, error |-> "API key required"]
    ELSE APIKey_verify(PresentedKey(req))

\* --------------------------------------------------------------- Machine
MachineIds == 1..Len(machines)

Machine_get_by_id(machine_id) == machine_id \in MachineIds

\* Mutant: the UPDATE sets the status and leaves last_seen as it was.
Machine_update_status_keep_seen(ms, machine_id, status, t) ==
    [ms EXCEPT ![machine_id].status = status]

\* Mutant: the UPDATE has no WHERE clause and writes every row.
Machine_update_status_all(ms, machine_id, status, t) ==
    [k \in DOMAIN ms |-> [ms[k] EXCEPT !.status = status, !.last_seen = t]]

Machine_update_status(ms, machine_id, status, t) ==
    [ms EXCEPT ![machine_id].status = status, ![machine_id].last_seen = t]

\* Machine.register: the rows matching (user_id, api_key_id).
Machine_existing(user_id, api_key_id) ==
    {i \in MachineIds : machines[i].user_id = user_id /\ machines[i].api_key_id = api_key_id}

Machine_register_update(ms, id, name, t) ==
    [ms EXCEPT ![id].last_seen = t, ![id].status = "online", ![id].name = name]

Machine_register_insert(ms, user_id, api_key_id, name, t) ==
    Append(ms, [user_id |-> user_id, api_key_id |-> api_key_id, name |-> name,
                last_seen |-> t, status |-> "online"])

\* ------------------------------------------------------------ Peripheral
PeripheralIds == 1..Len(peripherals)

Peripheral_get_by_id(peripheral_id) == peripheral_id \in PeripheralIds

\* Mutant: a plain INSERT, with no ON CONFLICT clause and no unique index.
Peripheral_register_insert_only(ps, machine_id, p, t) ==
    Append(ps, [machine_id |-> machine_id, name |-> p.name, type |-> p.type,
                location |-> p.location, last_updated |-> t])

\* Mutant: the conflict target is the name alone, whatever the machine.
Peripheral_register_by_name(ps, machine_id, p, t) ==
    LET hit == {i \in 1..Len(ps) : ps[i].name = p.name}
    IN  IF hit = {}
        THEN Append(ps, [machine_id |-> machine_id, name |-> p.name, type |-> p.type,
                         location |-> p.location, last_updated |-> t])
        ELSE [i \in 1..Len(ps) |->
                IF i \in hit
                THEN [ps[i] EXCEPT !.type = p.type, !.location = p.location,
                                   !.last_updated = t]
                ELSE ps[i]]

\* Peripheral.register: INSERT .. ON CONFLICT(machine_id, name) DO UPDATE.
Peripheral_register(ps, machine_id, p, t) ==
    LET hit == {i \in 1..Len(ps) : ps[i].machine_id = machine_id /\ ps[i].name = p.name}
    IN  IF hit = {}
        THEN Append(ps, [machine_id |-> machine_id, name |-> p.name, type |-> p.type,
                         location |-> p.location, last_updated |-> t])
        ELSE [i \in 1..Len(ps) |->
                IF i \in hit
                THEN [ps[i] EXCEPT !.type = p.type, !.location = p.location,
                                   !.last_updated = t]
                ELSE ps[i]]

\* The for loop of cc_register_peripherals over the payload.
RECURSIVE RegisterEach(_, _, _, _)
RegisterEach(ps, machine_id, payload, t) ==
    IF payload = <<>> THEN ps
    ELSE RegisterEach(Peripheral_register(ps, machine_id, Head(payload), t),
                      machine_id, Tail(payload), t)

\* ----------------------------------------------------------------- Route
RouteIds == {i \in 1..Len(routes) : routes[i] # NoRoute}

\* The rows the JOINs of get_by_id / get_by_machine keep: both peripherals exist.
Joined(route_id) ==
    /\ route_id \in RouteIds
    /\ routes[route_id].source_peripheral_id \in PeripheralIds
    /\ routes[route_id].dest_peripheral_id \in PeripheralIds

\* SELECT item_name FROM route_items WHERE route_id = ?
ItemsOf(items, route_id) ==
    LET rows == SelectSeq(items, LAMBDA r : r[1] = route_id)
    IN  [i \in 1..Len(rows) |-> rows[i][2]]

Route_item_names(route_id) == ItemsOf(route_items, route_id)

Route_get_by_id(route_id) == Joined(route_id)

Route_create(rs, user_id, name, source_peripheral_id, dest_peripheral_id, item_filter, t) ==
    Append(rs, [user_id |-> user_id, name |-> name,
                source_peripheral_id |-> source_peripheral_id,
                dest_peripheral_id |-> dest_peripheral_id,
                item_filter |-> item_filter, enabled |-> 1, created_at |-> t])

Route_items_insert(items, route_id, item_names) ==
    items \o [i \in 1..Len(item_names) |-> <<route_id, item_names[i]>>]

\* Mutant: the new item names are inserted without the DELETE before them.
Route_update_items_merge(items, route_id, data) ==
    IF "item_names" \in data.given
    THEN Route_items_insert(items, route_id, data.item_names)
    ELSE items

\* Route.update: a field changes iff its argument is not None.
Route_update_row(r, data) ==
    [r EXCEPT
        !.name = IF "name" \in data.given THEN data.name ELSE @,
        !.source_peripheral_id =
            IF "source_peripheral_id" \in data.given THEN data.source_peripheral_id ELSE @,
        !.dest_peripheral_id =
            IF "dest_peripheral_id" \in data.given THEN data.dest_peripheral_id ELSE @,
        !.item_filter = IF "item_filter" \in data.given THEN data.item_filter ELSE @,
        !.enabled = IF "enabled" \in data.given THEN data.enabled ELSE @]

Route_update_items(items, route_id, data) ==
    IF "item_names" \in data.given
    THEN Route_items_insert(SelectSeq(items, LAMBDA r : r[1] # route_id),
                            route_id, data.item_names)
    ELSE items

Route_delete(rs, route_id) == [rs EXCEPT ![route_id] = NoRoute]

\* Route.get_by_machine: WHERE (sp.machine_id = ? OR dp.machine_id = ?) AND r.enabled = 1
Route_by_machine_rows(machine_id) ==
    {i \in RouteIds :
        /\ Joined(i)
        /\ \/ peripherals[routes[i].source_peripheral_id].machine_id = machine_id
           \/ peripherals[routes[i].dest_peripheral_id].machine_id = machine_id
        /\ routes[i].enabled = 1}

\* ORDER BY r.created_at DESC: every order of the rows that puts later
\* creation times first; rows created at the same time come in any order.
OrderedByCreatedDesc(S) ==
    {s \in [1..Cardinality(S) -> S] :
        /\ \A i, j \in 1..Cardinality(S) : i < j =>
              /\ s[i] # s[j]
              /\ routes[s[i]].created_at >= routes[s[j]].created_at}

Route_get_by_machine(machine_id) == OrderedByCreatedDesc(Route_by_machine_rows(machine_id))

\* The command cc_get_commands formats for one route row.
Command(route_id) ==
    [route_id |-> route_id, action |-> "transfer",
     source |-> peripherals[routes[route_id].source_peripheral_id].name,
     dest |-> peripherals[routes[route_id].dest_peripheral_id].name,
     source_machine_id |-> peripherals[routes[route_id].source_peripheral_id].machine_id,
     dest_machine_id |-> peripherals[routes[route_id].dest_peripheral_id].machine_id,
     item_filter |-> routes[route_id].item_filter,
     item_names |-> Route_item_names(route_id)]

Commands(rows) == [i \in 1..Len(rows) |-> Command(rows[i])]

\* dict(row) of get_by_user / get_by_machine / get_by_id: the route's columns,
\* the joined names and machine ids of its peripherals, and its item names.
RouteRecord(route_id) ==
    [id |-> route_id, user_id |-> routes[route_id].user_id,
     name |-> routes[route_id].name,
     source_peripheral_id |-> routes[route_id].source_peripheral_id,
     dest_peripheral_id |-> routes[route_id].dest_peripheral_id,
     item_filter |-> routes[route_id].item_filter,
     enabled |-> routes[route_id].enabled,
     source_name |-> peripherals[routes[route_id].source_peripheral_id].name,
     source_machine_id |-> peripherals[routes[route_id].source_peripheral_id].machine_id,
     dest_name |-> peripherals[routes[route_id].dest_peripheral_id].name,
     dest_machine_id |-> peripherals[routes[route_id].dest_peripheral_id].machine_id,
     item_names |-> Route_item_names(route_id)]

RouteRecords(rows) == [i \in 1..Len(rows) |-> RouteRecord(rows[i])]

\* Route.get_by_user: JOIN both peripherals WHERE r.user_id = ?
Route_by_user_rows(user_id) ==
    {i \in RouteIds : Joined(i) /\ routes[i].user_id = user_id}

Route_get_by_user(user_id) ==
    {RouteRecords(rows) : rows \in OrderedByCreatedDesc(Route_by_user_rows(user_id))}

\* ------------------------------------------------- machine-facing handlers
\* POST /api/auth
cc_auth(req, name) ==
    /\ LET auth == api_key_required(req)
           existing == Machine_existing(auth.user_id, auth.id)
       IN  IF ~auth.ok
           THEN /\ Reply("cc_auth", NoUser, NoId, 401, auth.error, <<>>)
                /\ UNCHANGED machines
           ELSE IF existing # {}
           THEN \E id \in existing :
                /\ machines' = Machine_register_update(machines, id, name, now)
                /\ Reply("cc_auth", auth.user_id, id, 200, "", <<>>)
           ELSE /\ machines' = Machine_register_insert(machines, auth.user_id, auth.id, name, now)
                /\ Reply("cc_auth", auth.user_id, Len(machines) + 1, 200, "", <<>>)
    /\ UNCHANGED <<matcher, service, pending, now, peripherals, routes, route_items, sweep>>

\* cc_auth as the statements of Machine.register run when requests are served
\* by concurrent threads, each on its own connection.  Request thread c
\* passes the credential check and runs the SELECT ... WHERE user_id = ? AND
\* api_key_id = ?; what fetchone() returned is kept in pending[c].
cc_auth_select(c, req, name) ==
    /\ pending[c] = NoCall
    /\ LET auth == api_key_required(req)
           existing == Machine_existing(auth.user_id, auth.id)
       IN  IF ~auth.ok
           THEN /\ Reply("cc_auth", NoUser, NoId, 401, auth.error, <<>>)
                /\ UNCHANGED pending
           ELSE /\ \E id \in (IF existing = {} THEN {NoId} ELSE existing) :
                       pending' = [pending EXCEPT ![c] =
                                       [user_id |-> auth.user_id, api_key_id |-> auth.id,
                                        name |-> name, existing |-> id]]
                /\ UNCHANGED resp
    /\ UNCHANGED <<matcher, service, now, db, sweep>>

\* Request thread c runs the UPDATE or the INSERT its SELECT decided on,
\* commits and replies.
cc_auth_write(c) ==
    /\ pending[c] # NoCall
    /\ LET call == pending[c]
       IN  IF call.existing # NoId
           THEN /\ machines' = Machine_register_update(machines, call.existing, call.name, now)
                /\ Reply("cc_auth", call.user_id, call.existing, 200, "", <<>>)
           ELSE /\ machines' = Machine_register_insert(machines, call.user_id,
                                                       call.api_key_id, call.name, now)
                /\ Reply("cc_auth", call.user_id, Len(machines) + 1, 200, "", <<>>)
    /\ pending' = [pending EXCEPT ![c] = NoCall]
    /\ UNCHANGED <<matcher, service, now, peripherals, routes, route_items, sweep>>

\* Mutant: the check accepts every machine that exists, whoever owns it.
MachineOf_existing(auth, machine_id) == Machine_get_by_id(machine_id)

\* The ownership check the machine-scoped handlers share.
MachineOf(auth, machine_id) ==
    Machine_get_by_id(machine_id) /\ machines[machine_id].user_id = auth.user_id

\* POST /api/peripherals
cc_register_peripherals(req, machine_id, payload) ==
    /\ LET auth == api_key_required(req)
       IN  IF ~auth.ok
           THEN /\ Reply("cc_register_peripherals", NoUser, NoId, 401, auth.error, <<>>)
                /\ UNCHANGED peripherals
           ELSE IF machine_id = NoId
           THEN /\ Reply("cc_register_peripherals", auth.user_id, machine_id, 400,
                         "machine_id required", <<>>)
                /\ UNCHANGED peripherals
           ELSE IF ~MachineOf(auth, machine_id)
           THEN /\ Reply("cc_register_peripherals", auth.user_id, machine_id, 403,
                         "Invalid machine", <<>>)
                /\ UNCHANGED peripherals
           ELSE /\ peripherals' = RegisterEach(peripherals, machine_id, payload, now)
                /\ Reply("cc_register_peripherals", auth.user_id, machine_id, 200, "", <<>>)
    /\ UNCHANGED <<matcher, service, pending, now, machines, routes, route_items, sweep>>

\* GET /api/routes
cc_get_routes(req, machine_id) ==
    /\ LET auth == api_key_required(req)
       IN  IF ~auth.ok
           THEN Reply("cc_get_routes", NoUser, NoId, 401, auth.error, <<>>)
           ELSE IF machine_id = NoId
           THEN Reply("cc_get_routes", auth.user_id, machine_id, 400,
                      "machine_id required", <<>>)
           ELSE IF ~MachineOf(auth, machine_id)
           THEN Reply("cc_get_routes", auth.user_id, machine_id, 403,
                      "Invalid machine", <<>>)
           ELSE \E rows \in Route_get_by_machine(machine_id) :
                   Reply("cc_get_routes", auth.user_id, machine_id, 200, "",
                         RouteRecords(rows))
    /\ UNCHANGED <<matcher, service, pending, now, machines, peripherals, routes, route_items, sweep>>

\* Mutant: the poll marks the named machine online before it checks whose
\* machine it is.
cc_get_commands_mark_first(req, machine_id) ==
    /\ LET auth == api_key_required(req)
           marked == IF Machine_get_by_id(machine_id)
                     THEN Machine_update_status(machines, machine_id, "online", now)
                     ELSE machines
       IN  IF ~auth.ok
           THEN /\ Reply("cc_get_commands", NoUser, NoId, 401, auth.error, <<>>)
                /\ UNCHANGED machines
           ELSE IF machine_id = NoId
           THEN /\ Reply("cc_get_commands", auth.user_id, machine_id, 400,
                         "machine_id required", <<>>)
                /\ UNCHANGED machines
           ELSE IF ~MachineOf(auth, machine_id)
           THEN /\ Reply("cc_get_commands", auth.user_id, machine_id, 403,
                         "Invalid machine", <<>>)
                /\ machines' = marked
           ELSE /\ machines' = marked
                /\ \E rows \in Route_get_by_machine(machine_id) :
                      Reply("cc_get_commands", auth.user_id, machine_id, 200, "",
                            Commands(rows))
    /\ UNCHANGED <<matcher, service, pending, now, peripherals, routes, route_items, sweep>>

\* GET /api/commands
cc_get_commands(req, machine_id) ==
    /\ LET auth == api_key_required(req)
       IN  IF ~auth.ok
           THEN /\ Reply("cc_get_commands", NoUser, NoId, 401, auth.error, <<>>)
                /\ UNCHANGED machines
           ELSE IF machine_id = NoId
           THEN /\ Reply("cc_get_commands", auth.user_id, machine_id, 400,
                         "machine_id required", <<>>)
                /\ UNCHANGED machines
           ELSE IF ~MachineOf(auth, machine_id)
           THEN /\ Reply("cc_get_commands", auth.user_id, machine_id, 403,
                         "Invalid machine", <<>>)
                /\ UNCHANGED machines
           ELSE /\ machines' = Machine_update_status(machines, machine_id, "online", now)
                /\ \E rows \in Route_get_by_machine(machine_id) :
                      Reply("cc_get_commands", auth.user_id, machine_id, 200, "",
                            Commands(rows))
    /\ UNCHANGED <<matcher, service, pending, now, peripherals, routes, route_items, sweep>>

\* POST /api/status
cc_update_status(req, machine_id, status) ==
    /\ LET auth == api_key_required(req)
       IN  IF ~auth.ok
           THEN /\ Reply("cc_update_status", NoUser, NoId, 401, auth.error, <<>>)
                /\ UNCHANGED machines
           ELSE IF machine_id = NoId
           THEN /\ Reply("cc_update_status", auth.user_id, machine_id, 400,
                         "machine_id required", <<>>)
                /\ UNCHANGED machines
           ELSE IF ~MachineOf(auth, machine_id)
           THEN /\ Reply("cc_update_status", auth.user_id, machine_id, 403,
                         "Invalid machine", <<>>)
                /\ UNCHANGED machines
           ELSE /\ machines' = Machine_update_status(machines, machine_id, status, now)
                /\ Reply("cc_update_status", auth.user_id, machine_id, 200, "", <<>>)
    /\ UNCHANGED <<matcher, service, pending, now, peripherals, routes, route_items, sweep>>

\* --------------------------------------------------- owner-facing handlers
\* Mutant: the disconnect writes the status 'online'.
Machine_disconnect_online(ms, machine_id, t) ==
    [ms EXCEPT ![machine_id].status = "online", ![machine_id].api_key_id = NoKey,
               ![machine_id].last_seen = t]

\* The UPDATE of delete_machine.
Machine_disconnect(ms, machine_id, t) ==
    [ms EXCEPT ![machine_id].status = "offline", ![machine_id].api_key_id = NoKey,
               ![machine_id].last_seen = t]

\* DELETE /api/machines/<machine_id>
delete_machine(user_id, machine_id) ==
    /\ IF user_id = NoUser
       THEN /\ Reply("delete_machine", NoUser, NoId, 401, "Authentication required", <<>>)
            /\ UNCHANGED machines
       ELSE IF ~Machine_get_by_id(machine_id)
       THEN /\ Reply("delete_machine", user_id, machine_id, 404, "Machine not found", <<>>)
            /\ UNCHANGED machines
       ELSE IF machines[machine_id].user_id # user_id
       THEN /\ Reply("delete_machine", user_id, machine_id, 403, "Unauthorized", <<>>)
            /\ UNCHANGED machines
       ELSE /\ machines' = Machine_disconnect(machines, machine_id, now)
            /\ Reply("delete_machine", user_id, machine_id, 200, "", <<>>)
    /\ UNCHANGED <<matcher, service, pending, now, peripherals, routes, route_items, sweep>>

\* The account that owns the machine a peripheral is on.
PeripheralOwner(peripheral_id) == machines[peripherals[peripheral_id].machine_id].user_id

\* Mutant: only the source peripheral's machine is compared with the requester.
ForeignPeripheral_source_only(user_id, source_peripheral_id, dest_peripheral_id) ==
    PeripheralOwner(source_peripheral_id) # user_id

\* create_route: source_machine['user_id'] != user_id or dest_machine['user_id'] != user_id
ForeignPeripheral(user_id, source_peripheral_id, dest_peripheral_id) ==
    \/ PeripheralOwner(source_peripheral_id) # user_id
    \/ PeripheralOwner(dest_peripheral_id) # user_id

\* POST /api/routes
create_route(user_id, data) ==
    /\ IF user_id = NoUser
       THEN /\ Reply("create_route", NoUser, NoId, 401, "Authentication required", <<>>)
            /\ UNCHANGED <<routes, route_items>>
       ELSE IF data.name = None \/ data.source_peripheral_id = NoId
               \/ data.dest_peripheral_id = NoId
       THEN /\ Reply("create_route", user_id, NoId, 400,
                     "Name, source, and destination required", <<>>)
            /\ UNCHANGED <<routes, route_items>>
       ELSE IF ~Peripheral_get_by_id(data.source_peripheral_id)
               \/ ~Peripheral_get_by_id(data.dest_peripheral_id)
       THEN /\ Reply("create_route", user_id, NoId, 400, "Invalid peripheral", <<>>)
            /\ UNCHANGED <<routes, route_items>>
       ELSE IF ~Machine_get_by_id(peripherals[data.source_peripheral_id].machine_id)
               \/ ~Machine_get_by_id(peripherals[data.dest_peripheral_id].machine_id)
       THEN /\ Reply("create_route", user_id, NoId, 400, "Invalid machine", <<>>)
            /\ UNCHANGED <<routes, route_items>>
       ELSE IF ForeignPeripheral(user_id, data.source_peripheral_id, data.dest_peripheral_id)
       THEN /\ Reply("create_route", user_id, NoId, 403,
                     "Peripherals must belong to your machines", <<>>)
            /\ UNCHANGED <<routes, route_items>>
       ELSE /\ routes' = Route_create(routes, user_id, data.name, data.source_peripheral_id,
                                      data.dest_peripheral_id, data.item_filter, now)
            /\ route_items' = Route_items_insert(route_items, Len(routes) + 1, data.item_names)
            /\ Reply("create_route", user_id, Len(routes) + 1, 201, "", <<>>)
    /\ UNCHANGED <<matcher, service, pending, now, machines, peripherals, sweep>>

\* The ownership check of update_route and delete_route: the owner of the
\* machine of the route's current source peripheral.
RouteSourceOwner(route_id) == PeripheralOwner(routes[route_id].source_peripheral_id)

\* PUT /api/routes/<route_id>
update_route(user_id, route_id, data) ==
    /\ IF user_id = NoUser
       THEN /\ Reply("update_route", NoUser, NoId, 401, "Authentication required", <<>>)
            /\ UNCHANGED <<routes, route_items>>
       ELSE IF ~Route_get_by_id(route_id)
       THEN /\ Reply("update_route", user_id, route_id, 404, "Route not found", <<>>)
            /\ UNCHANGED <<routes, route_items>>
       ELSE IF RouteSourceOwner(route_id) # user_id
       THEN /\ Reply("update_route", user_id, route_id, 403, "Unauthorized", <<>>)
            /\ UNCHANGED <<routes, route_items>>
       ELSE /\ routes' = [routes EXCEPT ![route_id] = Route_update_row(@, data)]
            /\ route_items' = Route_update_items(route_items, route_id, data)
            /\ Reply("update_route", user_id, route_id, 200, "", <<>>)
    /\ UNCHANGED <<matcher, service, pending, now, machines, peripherals, sweep>>

\* DELETE /api/routes/<route_id>
delete_route(user_id, route_id) ==
    /\ IF user_id = NoUser
       THEN /\ Reply("delete_route", NoUser, NoId, 401, "Authentication required", <<>>)
            /\ UNCHANGED routes
       ELSE IF ~Route_get_by_id(route_id)
       THEN /\ Reply("delete_route", user_id, route_id, 404, "Route not found", <<>>)
            /\ UNCHANGED routes
       ELSE IF RouteSourceOwner(route_id) # user_id
       THEN /\ Reply("delete_route", user_id, route_id, 403, "Unauthorized", <<>>)
            /\ UNCHANGED routes
       ELSE /\ routes' = Route_delete(routes, route_id)
            /\ Reply("delete_route", user_id, route_id, 200, "", <<>>)
    /\ UNCHANGED <<matcher, service, pending, now, machines, peripherals, route_items, sweep>>

\* ------------------------------------------------------- liveness sweep
\* _discover_peripherals: timeout_threshold = utcnow() - MACHINE_TIMEOUT
Threshold(t) == t - MACHINE_TIMEOUT

\* SELECT * FROM machines WHERE status = 'online' AND last_seen > ?
SelectMachines(ms, threshold) ==
    SelectSeq([i \in 1..Len(ms) |-> [id |-> i, last_seen |-> ms[i].last_seen]],
              LAMBDA r : ms[r.id].status = "online" /\ r.last_seen > threshold)

\* if (current_time - last_seen).total_seconds() > MACHINE_TIMEOUT
TimedOut(current, last_seen) == current - last_seen > MACHINE_TIMEOUT

\* while self.running:
LoopTest(t) ==
    /\ pc[t] = "loop"
    /\ pc' = [pc EXCEPT ![t] = IF running THEN "threshold" ELSE "exited"]
    /\ UNCHANGED <<matcher, service, pending, now, db, running, timeout_threshold, fetched, current_time, idx, wake, resp>>

SweepThreshold(t) ==
    /\ pc[t] = "threshold"
    /\ timeout_threshold' = [timeout_threshold EXCEPT ![t] = Threshold(now)]
    /\ pc' = [pc EXCEPT ![t] = "select"]
    /\ UNCHANGED <<matcher, service, pending, now, db, running, fetched, current_time, idx, wake, resp>>

SweepSelect(t) ==
    /\ pc[t] = "select"
    /\ fetched' = [fetched EXCEPT ![t] = SelectMachines(machines, timeout_threshold[t])]
    /\ pc' = [pc EXCEPT ![t] = "now"]
    /\ UNCHANGED <<matcher, service, pending, now, db, running, timeout_threshold, current_time, idx, wake, resp>>

SweepNow(t) ==
    /\ pc[t] = "now"
    /\ current_time' = [current_time EXCEPT ![t] = now]
    /\ idx' = [idx EXCEPT ![t] = 1]
    /\ pc' = [pc EXCEPT ![t] = "for"]
    /\ UNCHANGED <<matcher, service, pending, now, db, running, timeout_threshold, fetched, wake, resp>>

\* One iteration of `for machine in machines`.
SweepFor(t) ==
    /\ pc[t] = "for"
    /\ idx[t] <= Len(fetched[t])
    /\ machines' =
          IF TimedOut(current_time[t], fetched[t][idx[t]].last_seen)
          THEN Machine_update_status(machines, fetched[t][idx[t]].id, "offline", now)
          ELSE machines
    /\ idx' = [idx EXCEPT ![t] = @ + 1]
    /\ UNCHANGED <<matcher, service, pending, now, peripherals, routes, route_items, running, pc, timeout_threshold,
                   fetched, current_time, wake, resp>>

\* The sweep returns and the loop calls time.sleep.  The rows and the loop
\* position are gone; timeout_threshold keeps the value of the pass until the
\* next pass assigns it.
SweepSleep(t) ==
    /\ pc[t] = "for"
    /\ idx[t] > Len(fetched[t])
    /\ pc' = [pc EXCEPT ![t] = "sleep"]
    /\ wake' = [wake EXCEPT ![t] = now + PERIPHERAL_DISCOVERY_INTERVAL]
    /\ fetched' = [fetched EXCEPT ![t] = <<>>]
    /\ current_time' = [current_time EXCEPT ![t] = 0]
    /\ idx' = [idx EXCEPT ![t] = 0]
    /\ UNCHANGED <<matcher, service, pending, now, db, running, timeout_threshold, resp>>

\* time.sleep(PERIPHERAL_DISCOVERY_INTERVAL) returns.
SweepWake(t) ==
    /\ pc[t] = "sleep"
    /\ now >= wake[t]
    /\ pc' = [pc EXCEPT ![t] = "loop"]
    /\ wake' = [wake EXCEPT ![t] = 0]
    /\ UNCHANGED <<matcher, service, pending, now, db, running, timeout_threshold, fetched, current_time, idx, resp>>

Sweep(t) ==
    \/ LoopTest(t)
    \/ SweepThreshold(t)
    \/ SweepSelect(t)
    \/ SweepNow(t)
    \/ SweepFor(t)
    \/ SweepSleep(t)
    \/ SweepWake(t)

\* ------------------------------------------- PeripheralDiscovery.start, stop
\* start(): nothing while the flag is set; otherwise the flag is set and a
\* new thread, the next that never ran, starts at the head of the loop.
start ==
    /\ ~joining
    /\ IF running
       THEN UNCHANGED <<running, thread, pc>>
       ELSE \E t \in Threads :
                /\ pc[t] = "idle"
                /\ \A k \in 1..(t - 1) : pc[k] # "idle"
                /\ running' = TRUE
                /\ thread' = t
                /\ pc' = [pc EXCEPT ![t] = "loop"]
    /\ UNCHANGED <<matcher, pending, joining, now, db, timeout_threshold, fetched,
                   current_time, idx, wake, resp>>

\* stop(): the flag is cleared, then the caller joins self.thread.
stop ==
    /\ ~joining
    /\ running' = FALSE
    /\ joining' = (thread # 0)
    /\ UNCHANGED <<matcher, pending, thread, now, db, pc, timeout_threshold, fetched,
                   current_time, idx, wake, resp>>

\* self.thread.join(timeout=5) gives up after 5 seconds: the thread is in
\* time.sleep(PERIPHERAL_DISCOVERY_INTERVAL), 30 seconds, and its sleep has
\* not run out.
JoinTimesOut == pc[thread] = "sleep" /\ wake[thread] > now

\* join returns: the thread has left its loop, or the timeout has passed.
join_return ==
    /\ joining
    /\ pc[thread] = "exited" \/ JoinTimesOut
    /\ joining' = FALSE
    /\ UNCHANGED <<matcher, pending, thread, now, db, sweep, resp>>

\* ----------------------------------------------------------------- clock
Tick ==
    /\ now < MaxTime
    /\ now' = now + 1
    /\ UNCHANGED <<matcher, service, pending, db, sweep, resp>>

\* ------------------------------------------------------------------ Init
\* A fresh database, and app.py has called discovery.start(): the flag is
\* set and thread 1 stands at the head of _discovery_loop.
InitServer ==
    /\ now = 0
    /\ machines = <<>>
    /\ peripherals = <<>>
    /\ routes = <<>>
    /\ route_items = <<>>
    /\ running = TRUE
    /\ pc = [t \in Threads |-> IF t = 1 THEN "loop" ELSE "idle"]
    /\ timeout_threshold = [t \in Threads |-> 0]
    /\ fetched = [t \in Threads |-> <<>>]
    /\ current_time = [t \in Threads |-> 0]
    /\ idx = [t \in Threads |-> 0]
    /\ wake = [t \in Threads |-> 0]
    /\ resp = [op |-> "none", user |-> NoUser, target |-> NoId, code |-> 0,
               error |-> "", body |-> <<>>]
    /\ thread = 1
    /\ joining = FALSE
    /\ pending = [c \in RequestThreads |-> NoCall]

\* No call of fuzzy_match_item is under way.
Init ==
    /\ InitServer
    /\ item_input = <<>>
    /\ item_list = <<>>
    /\ matched = <<>>
    /\ filtered = <<>>

\* ------------------------------------------ the liveness tracker (Spec)
\* The requests a machine sends: the credential in the header or in the
\* header of a JSON request, a wrong one, and one in the header of a
\* non-JSON request.
RequestInputs ==
    {[header |-> k, body_key |-> NoKey, is_json |-> TRUE] : k \in Keys \cup {BadKey}}
    \cup {[header |-> 1, body_key |-> NoKey, is_json |-> FALSE]}

\* Under Spec account 1 registers the machines; the credential of account 2
\* is presented against them.
RegisterInputs == {req \in RequestInputs : req.header # 2}

Next ==
    \/ Tick
    \/ \E t \in Threads : Sweep(t)
    \/ \E req \in RegisterInputs, name \in Names :
          cc_auth(req, name) /\ Len(machines') <= MaxMachines
    \/ \E req \in RequestInputs, m \in MachineIdInputs : cc_get_commands(req, m)
    \/ \E req \in RequestInputs, m \in MachineIdInputs, st \in StatusInputs :
          cc_update_status(req, m, st)
    \/ \E u \in SessionInputs, m \in MachineIdInputs : delete_machine(u, m)

Spec == Init /\ [][Next]_vars

\* -------------------------------------------- the route registry (SpecRoutes)
\* The clock stands still and no sweep runs; each account registers its
\* machine, the machines report a chest and poll, and the owners create,
\* update and delete routes.
PayloadInputs == {<<[name |-> n, type |-> "inventory", location |-> "top"]>> : n \in PeriphNames}

CreateData(n, s, d, i) ==
    [name |-> n, source_peripheral_id |-> s, dest_peripheral_id |-> d,
     item_filter |-> None, item_names |-> i]

CreateInputs ==
    {CreateData("route", s, d, <<>>) :
        s \in PeripheralIdInputs \ {NoId}, d \in PeripheralIdInputs \ {NoId}}
    \cup {CreateData("route", p, p, <<x>>) : p \in PeripheralIdInputs \ {NoId}, x \in ItemNames}
    \cup {CreateData(None, 1, 1, <<>>), CreateData("route", NoId, 1, <<>>),
          CreateData("route", 1, NoId, <<>>)}

\* update_route's JSON body: `given` holds the keys it carries.
UpdateData(given, s, d, e) ==
    [given |-> given, name |-> "route", source_peripheral_id |-> s,
     dest_peripheral_id |-> d, item_filter |-> None, enabled |-> e, item_names |-> <<>>]

UpdateInputs ==
    {UpdateData({}, NoId, NoId, 1)}
    \cup {UpdateData({"source_peripheral_id"}, s, NoId, 1) : s \in PeripheralIdInputs \ {NoId}}
    \cup {UpdateData({"dest_peripheral_id"}, NoId, d, 1) : d \in PeripheralIdInputs \ {NoId}}
    \cup {UpdateData({"enabled"}, NoId, NoId, e) : e \in {0, 1}}
    \cup {UpdateData({"name", "item_names"}, NoId, NoId, 1)}

\* A signed-in account sends every body; a visitor who is not signed in sends
\* one, and one body goes to a route id that was never issued.
CreateCalls ==
    (Users \X CreateInputs) \cup {<<NoUser, CreateData("route", 1, 1, <<>>)>>}

UpdateCalls ==
    (Users \X (1..MaxRoutes) \X UpdateInputs)
    \cup {<<u, MaxRoutes + 1, UpdateData({"enabled"}, NoId, NoId, 0)>> : u \in SessionInputs}
    \cup {<<NoUser, 1, UpdateData({"enabled"}, NoId, NoId, 0)>>}

\* The machines of the route registry send JSON bodies with the key in the header.
JsonRequestInputs == {req \in RequestInputs : req.is_json}

NextRoutes ==
    \/ \E req \in JsonRequestInputs, name \in Names : cc_auth(req, name)
    \/ \E req \in JsonRequestInputs, m \in AllMachineIdInputs, payload \in PayloadInputs :
          cc_register_peripherals(req, m, payload)
    \/ \E req \in JsonRequestInputs, m \in AllMachineIdInputs : cc_get_routes(req, m)
    \/ \E req \in RequestInputs, m \in AllMachineIdInputs : cc_get_commands(req, m)
    \/ \E req \in JsonRequestInputs, m \in AllMachineIdInputs : cc_update_status(req, m, "offline")
    \/ \E call \in CreateCalls :
          create_route(call[1], call[2]) /\ Len(routes') <= MaxRoutes
    \/ \E call \in UpdateCalls : update_route(call[1], call[2], call[3])
    \/ \E u \in SessionInputs, r \in RouteIdInputs : delete_route(u, r)

SpecRoutes == Init /\ [][NextRoutes]_vars

\* ------------------------------------- the machine registry (SpecMachines)
\* Registrations and owner disconnects while the clock advances; no sweep,
\* no peripheral and no route.
MaxRows == 2
MaxClock == 2

KeyRequest(k) == [header |-> k, body_key |-> NoKey, is_json |-> TRUE]

\* Account 1 registers under two names; account 2 and a wrong key register too.
RegisterCalls ==
    {<<KeyRequest(1), "turtle">>, <<KeyRequest(1), "miner">>,
     <<KeyRequest(2), "turtle">>, <<KeyRequest(BadKey), "turtle">>}

NextMachines ==
    \/ Tick /\ now' <= MaxClock
    \/ \E call \in RegisterCalls :
          cc_auth(call[1], call[2]) /\ Len(machines') <= MaxRows
    \/ \E u \in SessionInputs, m \in 1..(MaxRows + 1) : delete_machine(u, m)

SpecMachines == Init /\ [][NextMachines]_vars

\* ---------------------------------------- peripheral reports (SpecReports)
\* The machines of two accounts register and report their peripherals while
\* the clock advances.
ReportedPeripheral(n, ty, loc) == [name |-> n, type |-> ty, location |-> loc]

\* The peripherals arrays machines report: one peripheral, the same one
\* with another type and location, another one, two at once, none, and one
\* name twice in one report.
ReportInputs ==
    {<<ReportedPeripheral("chest", "inventory", "top")>>,
     <<ReportedPeripheral("chest", "furnace", "back")>>,
     <<ReportedPeripheral("barrel", "inventory", "top")>>,
     <<ReportedPeripheral("chest", "inventory", "top"),
       ReportedPeripheral("barrel", "inventory", "top")>>,
     <<>>,
     <<ReportedPeripheral("chest", "inventory", "top"),
       ReportedPeripheral("chest", "furnace", "back")>>}

\* Account 1 sends every report for every machine; account 2 sends one.
ReportCalls ==
    ({KeyRequest(1)} \X (1..MaxRows) \X ReportInputs)
    \cup ({KeyRequest(2)} \X (1..MaxRows)
          \X {<<ReportedPeripheral("chest", "inventory", "top")>>})

NextReports ==
    \/ Tick /\ now' <= MaxClock
    \/ \E k \in Keys :
          cc_auth(KeyRequest(k), "turtle") /\ Len(machines') <= MaxRows
    \/ \E call \in ReportCalls : cc_register_peripherals(call[1], call[2], call[3])

SpecReports == Init /\ [][NextReports]_vars

\* ------------------------------------------------ route edits (SpecEdit)
\* Account 1 registers a machine with two peripherals, creates routes with
\* a filter and item names, and edits and deletes them; account 2 tries to.
MaxEdited == 2

EditData(given, n, s, d, f, e, i) ==
    [given |-> given, name |-> n, source_peripheral_id |-> s, dest_peripheral_id |-> d,
     item_filter |-> f, enabled |-> e, item_names |-> i]

\* The JSON bodies of the edits, `given` holding the keys whose value is not
\* null (data.get returns None for a key that is absent or null): nothing,
\* a field alone, the item names alone (none, one name), and several fields
\* at once.
EditInputs ==
    {EditData({}, None, NoId, NoId, None, 1, <<>>),
     EditData({"name"}, "renamed", NoId, NoId, None, 1, <<>>),
     EditData({"source_peripheral_id"}, None, 2, NoId, None, 1, <<>>),
     EditData({"item_filter"}, None, NoId, NoId, "gold", 1, <<>>),
     EditData({"enabled"}, None, NoId, NoId, None, 0, <<>>),
     EditData({"item_names"}, None, NoId, NoId, None, 1, <<>>),
     EditData({"item_names"}, None, NoId, NoId, None, 1, <<"gold_ingot">>),
     EditData({"name", "enabled", "item_names"}, "renamed", NoId, NoId, None, 1,
              <<"iron_ingot">>)}

EditCalls ==
    ({1} \X (1..MaxEdited) \X EditInputs)
    \cup {<<2, 1, EditData({"name"}, "renamed", NoId, NoId, None, 1, <<>>)>>}

EditCreateInputs ==
    {[name |-> "route", source_peripheral_id |-> 1, dest_peripheral_id |-> 2,
      item_filter |-> "iron", item_names |-> <<"iron_ingot">>]}

NextEdit ==
    \/ cc_auth(KeyRequest(1), "turtle")
    \/ cc_register_peripherals(KeyRequest(1), 1,
          <<ReportedPeripheral("chest", "inventory", "top"),
            ReportedPeripheral("barrel", "inventory", "top")>>)
    \/ \E data \in EditCreateInputs :
          create_route(1, data) /\ Len(routes') <= MaxEdited
    \/ \E call \in EditCalls : update_route(call[1], call[2], call[3])
    \/ \E u \in Users, r \in 1..MaxEdited : delete_route(u, r)

SpecEdit == Init /\ [][NextEdit]_vars

\* ------------------------------------------- item_filter.py (SpecResolve)
\* A str is the sequence of its characters, each a one-character string.
lower_char(c) ==
    CASE c = "I" -> "i"
      [] c = "B" -> "b"
      [] c = "O" -> "o"
      [] OTHER -> c

RECURSIVE lower(_)
lower(s) ==
    IF Len(s) = 0 THEN <<>> ELSE <<lower_char(Head(s))>> \o lower(Tail(s))

Whitespace == {" "}

RECURSIVE lstrip(_)
lstrip(s) ==
    IF Len(s) > 0 /\ Head(s) \in Whitespace THEN lstrip(Tail(s)) ELSE s

RECURSIVE rstrip(_)
rstrip(s) ==
    IF Len(s) > 0 /\ s[Len(s)] \in Whitespace
    THEN rstrip(SubSeq(s, 1, Len(s) - 1))
    ELSE s

strip(s) == rstrip(lstrip(s))

startswith(s, prefix) ==
    Len(prefix) <= Len(s) /\ SubSeq(s, 1, Len(prefix)) = prefix

\* s.split(sep) for a one-character sep: "".split("_") is [""].
RECURSIVE split(_, _)
split(s, sep) ==
    IF \E i \in 1..Len(s) : s[i] = sep
    THEN LET i == CHOOSE i \in 1..Len(s) :
                      s[i] = sep /\ \A j \in 1..(i - 1) : s[j] # sep
         IN  <<SubSeq(s, 1, i - 1)>> \o split(SubSeq(s, i + 1, Len(s)), sep)
    ELSE <<s>>

RECURSIVE join(_, _)
join(sep, parts) ==
    IF Len(parts) = 0 THEN <<>>
    ELSE IF Len(parts) = 1 THEN parts[1]
    ELSE parts[1] \o <<sep>> \o join(sep, Tail(parts))

\* config.py
ABBREVIATION_MAP ==
    (<<"b">> :> <<"b", "l", "o", "c", "k">>)
    @@ (<<"i">> :> <<"i", "n", "g", "o", "t">>)
    @@ (<<"n">> :> <<"n", "u", "g", "g", "e", "t">>)
    @@ (<<"g">> :> <<"g", "e", "m">>)
    @@ (<<"d">> :> <<"d", "u", "s", "t">>)
    @@ (<<"p">> :> <<"p", "l", "a", "t", "e">>)

\* 0.6 as the fraction <<numerator, denominator>>.
FUZZY_MATCH_THRESHOLD == <<3, 5>>

\* Scores are fractions <<numerator, denominator>> with a positive
\* denominator; the quotients difflib computes are equal or ordered exactly
\* as the fractions are.
ScoreGe(s, t) == s[1] * t[2] >= t[1] * s[2]
ScoreGt(s, t) == s[1] * t[2] > t[1] * s[2]

\* difflib.SequenceMatcher.find_longest_match without junk: the longest
\* block a[i..i+size-1] = b[j..j+size-1] inside a[alo..ahi], b[blo..bhi]
\* (inclusive, from 1); of the longest, the one earliest in a, and of
\* those the one earliest in b.
find_longest_match(a, b, alo, ahi, blo, bhi) ==
    LET blocks == {t \in (alo..ahi) \X (blo..bhi) \X (1..Len(a)) :
                      /\ t[1] + t[3] - 1 <= ahi
                      /\ t[2] + t[3] - 1 <= bhi
                      /\ \A d \in 0..(t[3] - 1) : a[t[1] + d] = b[t[2] + d]}
    IN  IF blocks = {} THEN [a |-> alo, b |-> blo, size |-> 0]
        ELSE LET t == CHOOSE t \in blocks : \A u \in blocks :
                          \/ t[3] > u[3]
                          \/ t[3] = u[3] /\ t[1] < u[1]
                          \/ t[3] = u[3] /\ t[1] = u[1] /\ t[2] <= u[2]
             IN  [a |-> t[1], b |-> t[2], size |-> t[3]]

\* The total size of get_matching_blocks(): the longest match, then the
\* matching blocks to its left and to its right.
RECURSIVE matching_size(_, _, _, _, _, _)
matching_size(a, b, alo, ahi, blo, bhi) ==
    LET m == find_longest_match(a, b, alo, ahi, blo, bhi)
    IN  IF m.size = 0 THEN 0
        ELSE m.size
             + matching_size(a, b, alo, m.a - 1, blo, m.b - 1)
             + matching_size(a, b, m.a + m.size, ahi, m.b + m.size, bhi)

\* SequenceMatcher.ratio(): 2.0 * matches / length, 1.0 when length is 0.
ratio(a, b) ==
    IF Len(a) + Len(b) = 0 THEN <<1, 1>>
    ELSE <<2 * matching_size(a, b, 1, Len(a), 1, Len(b)), Len(a) + Len(b)>>

similarity(a, b) == ratio(lower(a), lower(b))

expand_abbreviation(s) ==
    LET parts == split(s, "_")
        last_part == parts[Len(parts)]
    IN  IF Len(parts) >= 2 /\ last_part \in DOMAIN ABBREVIATION_MAP
        THEN join("_", [parts EXCEPT ![Len(parts)] = ABBREVIATION_MAP[last_part]])
        ELSE s

\* The dict {item.lower(): item for item in item_list}: its keys in the
\* order of their first insertion, and for a key the last item stored.
RECURSIVE dict_keys(_, _)
dict_keys(items, n) ==
    IF n = 0 THEN <<>>
    ELSE LET keys == dict_keys(items, n - 1)
             key == lower(items[n])
         IN  IF \E i \in 1..Len(keys) : keys[i] = key THEN keys
             ELSE Append(keys, key)

dict_get(items, key) ==
    LET n == CHOOSE n \in 1..Len(items) :
                 /\ lower(items[n]) = key
                 /\ \A k \in (n + 1)..Len(items) : lower(items[k]) # key
    IN  items[n]

NoMatch == [found |-> FALSE, item |-> <<>>, kind |-> "None"]
Match(item, kind) == [found |-> TRUE, item |-> item, kind |-> kind]

\* The first prefix match in the order of the dict, whatever its length.
PrefixMatch_first(keys, token) ==
    CHOOSE i \in 1..Len(keys) :
        /\ startswith(keys[i], token)
        /\ \A k \in 1..(i - 1) : ~startswith(keys[k], token)

\* prefix_matches in the order of the dict, then the stable sort by length:
\* the first of the shortest keys.
PrefixMatch(keys, token) ==
    LET hits == {i \in 1..Len(keys) : startswith(keys[i], token)}
    IN  CHOOSE i \in hits : \A k \in hits :
            \/ Len(keys[i]) < Len(keys[k])
            \/ Len(keys[i]) = Len(keys[k]) /\ i <= k

\* The loop of the fuzzy tier with score >= best_score: the last of the
\* best entries wins.
RECURSIVE FuzzyLoop_last_wins(_, _, _, _)
FuzzyLoop_last_wins(keys, items, token, n) ==
    IF n = 0 THEN [best_score |-> <<0, 1>>, best_match |-> NoMatch]
    ELSE LET before == FuzzyLoop_last_wins(keys, items, token, n - 1)
             score == similarity(token, keys[n])
         IN  IF ScoreGe(score, before.best_score)
                /\ ScoreGe(score, FUZZY_MATCH_THRESHOLD)
             THEN [best_score |-> score,
                   best_match |-> Match(dict_get(items, keys[n]), "fuzzy")]
             ELSE before

\* The loop of the fuzzy tier after n keys: best_score and best_match.
RECURSIVE FuzzyLoop(_, _, _, _)
FuzzyLoop(keys, items, token, n) ==
    IF n = 0 THEN [best_score |-> <<0, 1>>, best_match |-> NoMatch]
    ELSE LET before == FuzzyLoop(keys, items, token, n - 1)
             score == similarity(token, keys[n])
         IN  IF ScoreGt(score, before.best_score)
                /\ ScoreGe(score, FUZZY_MATCH_THRESHOLD)
             THEN [best_score |-> score,
                   best_match |-> Match(dict_get(items, keys[n]), "fuzzy")]
             ELSE before

\* The prefix tier tried before the abbreviation tier.
fuzzy_match_item_prefix_first(raw_input, items) ==
    LET token == strip(lower(raw_input))
        keys == dict_keys(items, Len(items))
        has(key) == \E i \in 1..Len(keys) : keys[i] = key
        expanded == expand_abbreviation(token)
        best == FuzzyLoop(keys, items, token, Len(keys)).best_match
    IN  IF has(token) THEN Match(dict_get(items, token), "exact")
        ELSE IF \E i \in 1..Len(keys) : startswith(keys[i], token)
        THEN Match(dict_get(items, keys[PrefixMatch(keys, token)]), "prefix")
        ELSE IF expanded # token /\ has(lower(expanded))
        THEN Match(dict_get(items, lower(expanded)), "abbreviation")
        ELSE IF best.found /\ Len(best.item) > 0 THEN best
        ELSE NoMatch

fuzzy_match_item(raw_input, items) ==
    LET token == strip(lower(raw_input))
        keys == dict_keys(items, Len(items))
        has(key) == \E i \in 1..Len(keys) : keys[i] = key
        expanded == expand_abbreviation(token)
        best == FuzzyLoop(keys, items, token, Len(keys)).best_match
    IN  IF has(token) THEN Match(dict_get(items, token), "exact")
        ELSE IF expanded # token /\ has(lower(expanded))
        THEN Match(dict_get(items, lower(expanded)), "abbreviation")
        ELSE IF \E i \in 1..Len(keys) : startswith(keys[i], token)
        THEN Match(dict_get(items, keys[PrefixMatch(keys, token)]), "prefix")
        ELSE IF best.found /\ Len(best.item) > 0 THEN best
        ELSE NoMatch

\* One call: the arguments stay, the value returned is recorded.
fuzzy_match_item_call ==
    /\ matched = <<>>
    /\ matched' = <<fuzzy_match_item(item_input, item_list)>>
    /\ UNCHANGED <<item_input, item_list, filtered, service, pending, now, db, sweep, resp>>

\* Catalog entries and tokens.
iron_ingot == <<"i", "r", "o", "n", "_", "i", "n", "g", "o", "t">>
iron_block == <<"i", "r", "o", "n", "_", "b", "l", "o", "c", "k">>
Iron_Block == <<"I", "r", "o", "n", "_", "B", "l", "o", "c", "k">>
iron_bars == <<"i", "r", "o", "n", "_", "b", "a", "r", "s">>
iron_ore == <<"i", "r", "o", "n", "_", "o", "r", "e">>
gold_ingot == <<"g", "o", "l", "d", "_", "i", "n", "g", "o", "t">>
gold_block == <<"g", "o", "l", "d", "_", "b", "l", "o", "c", "k">>
block == <<"b", "l", "o", "c", "k">>
iron_b == <<"i", "r", "o", "n", "_", "b">>
iron_i == <<"i", "r", "o", "n", "_", "i">>

\* What a user types: an abbreviation as it is, in capitals and padded, an
\* identifier in either case, a prefix, typos (one as near to two entries,
\* one at a similarity of exactly 0.6 to block), a bare abbreviation letter,
\* nothing, and a word no entry resembles.
TokenInputs ==
    {iron_b,
     <<"I", "r", "o", "n", "_", "B">>,
     <<" ">> \o iron_b \o <<" ">>,
     iron_i,
     iron_block,
     Iron_Block,
     <<"i", "r", "o", "n">>,
     <<"i", "r", "o", "n", "_", "b", "l", "o", "k">>,
     <<"i", "r", "n", "_", "b">>,
     <<"g", "o", "l", "d", "_", "x">>,
     <<"b", "x", "x", "c", "k">>,
     <<"b">>,
     <<>>,
     <<"x", "y", "z">>}

\* Catalogs: lists of identifiers, in the order given.
CatalogInputs ==
    {<<iron_ingot, iron_block, iron_ore>>,
     <<iron_block>>,
     <<iron_b, iron_block>>,
     <<iron_bars, iron_block>>,
     <<Iron_Block, iron_ingot>>,
     <<iron_block, Iron_Block>>,
     <<iron_ore, iron_ingot>>,
     <<gold_ingot, gold_block>>,
     <<block, iron_block>>,
     <<>>}

InitResolve ==
    /\ InitServer
    /\ item_input \in TokenInputs
    /\ item_list \in CatalogInputs
    /\ matched = <<>>
    /\ filtered = <<>>

NextResolve == fuzzy_match_item_call

SpecResolve == InitResolve /\ [][NextResolve]_vars

\* ------------------------------------------- filter_items_by_name (SpecFilter)
\* The tuple (item, match_type, score) the loop appends for an item, or
\* NoEntry when it appends none.  The tests run in the order of the code:
\* equal, startswith, expanded abbreviation, similarity.
NoEntry == [kind |-> "None", score |-> <<0, 1>>]

match_priority ==
    ("exact" :> 4) @@ ("abbreviation" :> 3) @@ ("prefix" :> 2) @@ ("fuzzy" :> 1)

FilterEntry(token, item) ==
    LET item_lower == lower(item)
        expanded == expand_abbreviation(token)
        score == similarity(token, item_lower)
    IN  IF item_lower = token THEN [kind |-> "exact", score |-> <<1, 1>>]
        ELSE IF startswith(item_lower, token)
        THEN [kind |-> "prefix", score |-> <<4, 5>>]
        ELSE IF expanded # token /\ item_lower = lower(expanded)
        THEN [kind |-> "abbreviation", score |-> <<9, 10>>]
        ELSE IF ScoreGe(score, FUZZY_MATCH_THRESHOLD)
        THEN [kind |-> "fuzzy", score |-> score]
        ELSE NoEntry

\* The sort key (match_priority, score) of entry e is greater than that of f.
KeyGt(e, f) ==
    \/ match_priority[e.kind] > match_priority[f.kind]
    \/ match_priority[e.kind] = match_priority[f.kind] /\ ScoreGt(e.score, f.score)

\* matches.sort(key=..., reverse=True): descending by key, entries with
\* equal keys in the order they were appended.  rest is the set of positions
\* of item_list not yet placed.
RECURSIVE SortedMatches(_, _, _)
SortedMatches(token, items, rest) ==
    IF rest = {} THEN <<>>
    ELSE LET first == CHOOSE i \in rest : \A k \in rest \ {i} :
                          \/ KeyGt(FilterEntry(token, items[i]), FilterEntry(token, items[k]))
                          \/ /\ ~KeyGt(FilterEntry(token, items[k]), FilterEntry(token, items[i]))
                             /\ i < k
         IN  <<items[first]>> \o SortedMatches(token, items, rest \ {first})

filter_items_by_name(raw_input, items) ==
    IF Len(raw_input) = 0 THEN items
    ELSE LET token == strip(lower(raw_input))
         IN  SortedMatches(token, items,
                 {i \in 1..Len(items) : FilterEntry(token, items[i]) # NoEntry})

\* One call: the arguments stay, the list returned is recorded.
filter_items_by_name_call ==
    /\ filtered = <<>>
    /\ filtered' = <<filter_items_by_name(item_input, item_list)>>
    /\ UNCHANGED <<item_input, item_list, matched, service, pending, now, db, sweep, resp>>

NextFilter == filter_items_by_name_call

SpecFilter == InitResolve /\ [][NextFilter]_vars

\* ------------------------------------------- the sweep service (SpecService)
\* The service is started and stopped while one machine registers and the
\* sweeps run.
NextService ==
    \/ Tick
    \/ \E t \in Threads : Sweep(t)
    \/ start
    \/ stop
    \/ join_return
    \/ cc_auth(KeyRequest(1), "turtle") /\ Len(machines') <= MaxMachines

SpecService == Init /\ [][NextService]_vars

\* ------------------------------------------- concurrent registers (SpecRegister)
\* Two request threads serve register calls with either credential and
\* either name, or with a wrong credential; machines are disconnected.
NextRegister ==
    \/ Tick /\ now' <= MaxClock
    \/ \E c \in RequestThreads, call \in RegisterCalls :
          cc_auth_select(c, call[1], call[2])
    \/ \E c \in RequestThreads : cc_auth_write(c) /\ Len(machines') <= MaxRows
    \/ \E u \in SessionInputs, m \in 1..(MaxRows + 1) : delete_machine(u, m)

SpecRegister == Init /\ [][NextRegister]_vars

\* ======================================================================
\* Claims about the liveness tracker, checked under Spec
\* ======================================================================

\* How a step shows which operation took it: a sweep iteration moves the
\* loop position of its thread; a handler leaves the clock and the sweep
\* alone and writes its response.
SweepStepOn(t, m) ==
    /\ pc[t] = "for"
    /\ idx[t] <= Len(fetched[t])
    /\ idx'[t] = idx[t] + 1
    /\ fetched[t][idx[t]].id = m
    /\ now' = now
    /\ resp' = resp

HandlerStepOn(op, m) ==
    /\ now' = now
    /\ UNCHANGED sweep
    /\ resp'.op = op
    /\ resp'.target = m
    /\ resp'.code = 200

\* The sweep of thread t has visited every row and has not yet returned.
PassEnded(t) == pc[t] = "for" /\ idx[t] > Len(fetched[t])

\* C1: a sweep demotes exactly the stale online machines.  When a pass
\* returns, no machine is still online with a last-seen older than the
\* threshold (now - timeout) the pass computed, and an iteration of a pass
\* sets a machine offline only if its stored last-seen is older than the
\* timeout at that moment.
C1_SweepDemotesExactlyStale ==
    [][\A t \in Threads :
          /\ (PassEnded(t) /\ pc'[t] = "sleep") =>
                \A m \in MachineIds :
                    ~(machines[m].status = "online"
                      /\ machines[m].last_seen < timeout_threshold[t])
          /\ \A m \in MachineIds :
                (SweepStepOn(t, m) /\ machines[m].status = "online"
                                   /\ machines'[m].status = "offline")
                    => now - machines[m].last_seen > MACHINE_TIMEOUT]_vars

\* C2: staleness is bounded.  While the sweep loop runs on schedule (it has
\* returned from a pass and its sleep is not overdue), every online machine
\* checked in no longer ago than one sweep interval plus the timeout, counted
\* from the moment the pass computed its threshold: now - last_seen <=
\* wake - timeout_threshold = interval + timeout + the time the pass took.
C2_StalenessBounded ==
    \A t \in Threads, m \in MachineIds :
        (running /\ pc[t] = "sleep" /\ now <= wake[t] /\ machines[m].status = "online")
            => now - machines[m].last_seen <= wake[t] - timeout_threshold[t]

\* C8: every machine's status is online or offline.
C8_StatusOnlineOrOffline ==
    \A m \in MachineIds : machines[m].status \in {"online", "offline"}

\* C9 as claimed: offline -> online happens only in a register, fetch-commands
\* or status-report step for that machine, online -> offline only in a sweep
\* step or an owner disconnect step, and no other operation changes a status.
C9_Original ==
    [][\A m \in MachineIds :
          machines'[m].status # machines[m].status =>
              \/ /\ machines[m].status = "offline" /\ machines'[m].status = "online"
                 /\ \/ HandlerStepOn("cc_auth", m)
                    \/ HandlerStepOn("cc_get_commands", m)
                    \/ HandlerStepOn("cc_update_status", m)
              \/ /\ machines[m].status = "online" /\ machines'[m].status = "offline"
                 /\ \/ \E t \in Threads : SweepStepOn(t, m)
                    \/ HandlerStepOn("delete_machine", m)]_vars

\* C9 as amended: a status changes only in a register, fetch-commands,
\* status-report, disconnect or sweep step for that machine; offline ->
\* online happens only in a register, fetch-commands or status-report step,
\* and online -> offline only in a sweep, disconnect or status-report step.
C9_StatusChangesOnlyInListedSteps ==
    [][\A m \in MachineIds :
          machines'[m].status # machines[m].status =>
              /\ \/ HandlerStepOn("cc_auth", m)
                 \/ HandlerStepOn("cc_get_commands", m)
                 \/ HandlerStepOn("cc_update_status", m)
                 \/ HandlerStepOn("delete_machine", m)
                 \/ \E t \in Threads : SweepStepOn(t, m)
              /\ (machines[m].status = "offline" /\ machines'[m].status = "online") =>
                    \/ HandlerStepOn("cc_auth", m)
                    \/ HandlerStepOn("cc_get_commands", m)
                    \/ HandlerStepOn("cc_update_status", m)
              /\ (machines[m].status = "online" /\ machines'[m].status = "offline") =>
                    \/ \E t \in Threads : SweepStepOn(t, m)
                    \/ HandlerStepOn("delete_machine", m)
                    \/ HandlerStepOn("cc_update_status", m)]_vars

\* C9 witness: a status report has set an online machine offline.
C9_Witness ==
    /\ resp.op = "cc_update_status"
    /\ resp.code = 200
    /\ resp.target \in MachineIds
    /\ machines[resp.target].status = "offline"
    /\ machines[resp.target].api_key_id # NoKey

\* C10: an iteration of a sweep leaves every offline machine's row as it is
\* and sets no machine online, whatever ran since the sweep read its rows.
C10_SweepLeavesOfflineAlone ==
    [][\A t \in Threads, m \in MachineIds :
          SweepStepOn(t, m) =>
              \A k \in MachineIds :
                  /\ machines[k].status = "offline" => machines'[k] = machines[k]
                  /\ machines'[k].status = "online" => machines[k].status = "online"]_vars

\* ======================================================================
\* Claims about the route registry, checked under SpecRoutes
\* ======================================================================

\* Route r has an endpoint on machine m.
Touches(r, m) ==
    \/ /\ routes[r].source_peripheral_id \in PeripheralIds
       /\ peripherals[routes[r].source_peripheral_id].machine_id = m
    \/ /\ routes[r].dest_peripheral_id \in PeripheralIds
       /\ peripherals[routes[r].dest_peripheral_id].machine_id = m

CommandRouteIds(body) == [i \in 1..Len(body) |-> body[i].route_id]

\* C3: a successful poll of machine m, online or not before it, returns
\* exactly one command per enabled route with an endpoint on m, none for any
\* other route, in an order Route.get_by_machine(m) returns the routes in.
C3_PollReturnsEveryEnabledRoute ==
    [][\A m \in MachineIds :
          HandlerStepOn("cc_get_commands", m) =>
              LET ids == CommandRouteIds(resp'.body)
              IN  /\ {ids[i] : i \in 1..Len(ids)}
                        = {r \in RouteIds : routes[r].enabled = 1 /\ Touches(r, m)}
                  /\ \A i, j \in 1..Len(ids) : i # j => ids[i] # ids[j]
                  /\ ids \in Route_get_by_machine(m)]_vars

\* C4: every peripheral a route names as its source or destination is on a
\* machine of the account that owns the route.
C4_RouteEndpointsOwnedByRouteOwner ==
    \A r \in RouteIds :
        \A p \in {routes[r].source_peripheral_id, routes[r].dest_peripheral_id} :
            p \in PeripheralIds => PeripheralOwner(p) = routes[r].user_id

\* Both endpoints of a route row exist and are on machines of account u.
EndpointsOwnedBy(row, u) ==
    /\ row.source_peripheral_id \in PeripheralIds
    /\ row.dest_peripheral_id \in PeripheralIds
    /\ PeripheralOwner(row.source_peripheral_id) = u
    /\ PeripheralOwner(row.dest_peripheral_id) = u

RouteStep(op) ==
    /\ now' = now
    /\ UNCHANGED sweep
    /\ resp'.op = op

\* C5: a route create, update or delete succeeds only if the endpoints the
\* route has after the call (before it, for a delete) exist and are on
\* machines of the requester, and a call that fails with 400 or 403 changes
\* no route and no route item.
C5_MutationsCheckBothEndpoints ==
    [][/\ (RouteStep("create_route") /\ resp'.code = 201) =>
              EndpointsOwnedBy(routes'[resp'.target], resp'.user)
       /\ (RouteStep("update_route") /\ resp'.code = 200) =>
              EndpointsOwnedBy(routes'[resp'.target], resp'.user)
       /\ (RouteStep("delete_route") /\ resp'.code = 200) =>
              EndpointsOwnedBy(routes[resp'.target], resp'.user)
       /\ ((RouteStep("create_route") \/ RouteStep("update_route")
            \/ RouteStep("delete_route")) /\ resp'.code \in {400, 403}) =>
              UNCHANGED <<routes, route_items>>]_vars

\* C6: a route's row and item names change, or the route is deleted, only in
\* an update or delete call on it by the account recorded as its owner.
C6_OnlyOwnerMutatesRoute ==
    [][\A r \in RouteIds :
          (routes'[r] # routes[r] \/ ItemsOf(route_items', r) # ItemsOf(route_items, r)) =>
              /\ RouteStep("update_route") \/ RouteStep("delete_route")
              /\ resp'.target = r
              /\ resp'.user = routes[r].user_id]_vars

\* What a create request asks for, read off the tables.
DanglingEndpoint(data) ==
    \/ data.source_peripheral_id \notin PeripheralIds
    \/ data.dest_peripheral_id \notin PeripheralIds

ForeignEndpoint(u, data) ==
    \E p \in {data.source_peripheral_id, data.dest_peripheral_id} :
        p \in PeripheralIds /\ PeripheralOwner(p) # u

\* C7 as claimed: a create naming a peripheral of another account's machine
\* fails with 403, one naming a peripheral that does not exist fails with 400,
\* and either creates no route and no route item.
C7_Original ==
    [][(RouteStep("create_route") /\ resp'.user \in Users) =>
       \A data \in CreateInputs :
          create_route(resp'.user, data) =>
              /\ ForeignEndpoint(resp'.user, data) =>
                    resp'.code = 403 /\ UNCHANGED <<routes, route_items>>
              /\ DanglingEndpoint(data) =>
                    resp'.code = 400 /\ UNCHANGED <<routes, route_items>>]_vars

\* C7 as amended: a create that carries a name and names two existing
\* peripherals, one of them on another account's machine, fails with 403; a
\* create naming a peripheral that does not exist fails with 400, also when
\* the other peripheral is another account's; a create naming a foreign or
\* nonexistent peripheral creates no route and no route item.
C7_CreateRejectsForeignAndDangling ==
    [][(RouteStep("create_route") /\ resp'.user \in Users) =>
       \A data \in CreateInputs :
          create_route(resp'.user, data) =>
              /\ (ForeignEndpoint(resp'.user, data) \/ DanglingEndpoint(data)) =>
                    UNCHANGED <<routes, route_items>>
              /\ (data.name # None /\ ~DanglingEndpoint(data)
                  /\ ForeignEndpoint(resp'.user, data)) =>
                    resp'.code = 403 /\ UNCHANGED <<routes, route_items>>
              /\ DanglingEndpoint(data) =>
                    resp'.code = 400 /\ UNCHANGED <<routes, route_items>>]_vars

\* C7 witness: a create was refused as forbidden while a route with item
\* names exists.
C7_Witness ==
    /\ resp.op = "create_route"
    /\ resp.code = 403
    /\ resp.user \in Users
    /\ RouteIds # {}
    /\ route_items # <<>>

\* ======================================================================
\* Claims about the poll, checked under Spec (C11) and SpecRoutes (C12)
\* ======================================================================

\* C11: a successful fetch-commands call for machine m has written status
\* online and last-seen = the time of the call by the time its response is
\* produced, and the commands of the response are those of the routes read
\* in the state the write left.
C11_PollMarksOnlineBeforeCommands ==
    [][\A m \in MachineIds :
          HandlerStepOn("cc_get_commands", m) =>
              /\ machines'[m].status = "online"
              /\ machines'[m].last_seen = now
              /\ resp'.body \in {Commands(rows) : rows \in Route_get_by_machine(m)}']_vars

\* C11 witness: a poll has just set a machine online with last-seen = now,
\* later than its registration.
C11_Witness ==
    /\ resp.op = "cc_get_commands"
    /\ resp.code = 200
    /\ resp.target \in MachineIds
    /\ machines[resp.target].status = "online"
    /\ machines[resp.target].last_seen = now
    /\ now > 0

\* C12: a fetch-commands call changes no route, no route item name and no
\* peripheral, adds and removes no machine, and changes of the machine rows
\* only the status and last-seen of the machine a successful call names.
C12_PollChangesOnlyOwnLiveness ==
    [][RouteStep("cc_get_commands") =>
          /\ UNCHANGED <<routes, route_items, peripherals>>
          /\ DOMAIN machines' = DOMAIN machines
          /\ \A k \in DOMAIN machines :
                IF resp'.code = 200 /\ k = resp'.target
                THEN machines'[k] = [machines[k] EXCEPT !.status = machines'[k].status,
                                                        !.last_seen = machines'[k].last_seen]
                ELSE machines'[k] = machines[k]]_vars

\* C12 witness: a poll returned a command while another machine is offline.
C12_Witness ==
    /\ resp.op = "cc_get_commands"
    /\ resp.code = 200
    /\ resp.body # <<>>
    /\ \E k \in MachineIds : k # resp.target /\ machines[k].status = "offline"

\* ======================================================================
\* Claims about the machine-scoped calls, checked under SpecRoutes
\* ======================================================================

MachineScopedOps ==
    {"cc_register_peripherals", "cc_get_routes", "cc_get_commands", "cc_update_status"}

\* C16: an authenticated machine-scoped call that names a machine id no
\* machine has and one that names a machine of another account get the same
\* response: 403 'Invalid machine' with no body.
C16_SameForbiddenForAbsentAndForeign ==
    [][\A op \in MachineScopedOps :
          (/\ RouteStep(op)
           /\ resp'.user \in Users
           /\ resp'.target # NoId
           /\ \/ resp'.target \notin MachineIds
              \/ machines[resp'.target].user_id # resp'.user) =>
              /\ resp'.code = 403
              /\ resp'.error = "Invalid machine"
              /\ resp'.body = <<>>]_vars

\* C16 witness: a call naming another account's machine was answered 403
\* while a machine id that names no machine is among the ids requests carry.
C16_Witness ==
    /\ resp.op \in MachineScopedOps
    /\ resp.code = 403
    /\ resp.target \in MachineIds
    /\ machines[resp.target].user_id # resp.user
    /\ AllMachineIdInputs \ MachineIds # {}

\* C17: a machine-facing call answered 401 (no or invalid credential) or
\* 403 (the named machine is not the caller's) changes no machine, no
\* peripheral, no route and no route item name.
C17_RejectedCallChangesNothing ==
    [][\A op \in MachineScopedOps \cup {"cc_auth"} :
          (RouteStep(op) /\ resp'.code \in {401, 403}) =>
              UNCHANGED <<machines, peripherals, routes, route_items>>]_vars

\* C17 witness: a poll naming another account's offline machine was refused
\* and the machine is still offline.
C17_Witness ==
    /\ resp.op = "cc_get_commands"
    /\ resp.code = 403
    /\ resp.target \in MachineIds
    /\ machines[resp.target].status = "offline"

\* ======================================================================
\* Claims about registration, checked under SpecMachines
\* ======================================================================

\* The machine records of account u.  Every account holds one credential
\* (KeyOwner), so these are the records its registrations created.
MachinesOf(u) == {m \in MachineIds : machines[m].user_id = u}

\* C13: register is create-or-update keyed by (owner, credential).  The first
\* successful register of an account's credential appends one record, online;
\* every later one, whatever ran in between, appends none, returns the id the
\* first returned and leaves that record online with last-seen = now; no
\* register changes another record.
C13_RegisterKeepsOneRecord ==
    [][(RouteStep("cc_auth") /\ resp'.code = 200) =>
          LET u == resp'.user
              id == resp'.target
          IN  /\ IF MachinesOf(u) = {}
                 THEN /\ Len(machines') = Len(machines) + 1
                      /\ id = Len(machines')
                 ELSE /\ Len(machines') = Len(machines)
                      /\ \A m \in MachinesOf(u) : id <= m
              /\ machines'[id].user_id = u
              /\ machines'[id].status = "online"
              /\ machines'[id].last_seen = now
              /\ \A m \in MachineIds : m # id => machines'[m] = machines[m]]_vars

\* ======================================================================
\* Claims about peripheral reports, checked under SpecReports
\* ======================================================================

\* What identifies and describes a peripheral, without its timestamp.
Described(ps) ==
    {<<i, ps[i].machine_id, ps[i].name, ps[i].type, ps[i].location>> : i \in 1..Len(ps)}

ReportedNames(payload) == {payload[i].name : i \in 1..Len(payload)}

\* C14: after a report there is at most one peripheral per (machine id,
\* name); a report removes no peripheral and changes no peripheral's id,
\* machine or name, and a peripheral it overwrites carries the time of the
\* report; the same report applied once more leaves the set of (id, machine
\* id, name, type, location) as it is.
C14_ReportIsIdempotentUpsert ==
    [][RouteStep("cc_register_peripherals") =>
       \A call \in ReportCalls :
          cc_register_peripherals(call[1], call[2], call[3]) =>
              /\ \A i, j \in 1..Len(peripherals') :
                    (/\ peripherals'[i].machine_id = peripherals'[j].machine_id
                     /\ peripherals'[i].name = peripherals'[j].name) => i = j
              /\ Len(peripherals') >= Len(peripherals)
              /\ \A i \in PeripheralIds :
                    /\ peripherals'[i].machine_id = peripherals[i].machine_id
                    /\ peripherals'[i].name = peripherals[i].name
                    /\ (/\ peripherals[i].machine_id = call[2]
                        /\ peripherals[i].name \in ReportedNames(call[3])
                        /\ resp'.code = 200) => peripherals'[i].last_updated = now
              /\ resp'.code = 200 =>
                    Described(RegisterEach(peripherals', call[2], call[3], now))
                        = Described(peripherals')]_vars

\* C14 witness: two machines each have a peripheral of the same name, and a
\* report has overwritten the type of one of them at a later time.
C14_Witness ==
    /\ resp.op = "cc_register_peripherals"
    /\ resp.code = 200
    /\ \E i, j \in PeripheralIds :
          /\ peripherals[i].machine_id # peripherals[j].machine_id
          /\ peripherals[i].name = peripherals[j].name
          /\ peripherals[i].type = "furnace"
          /\ peripherals[i].last_updated > 0
          /\ i < j

\* C15: a report for machine m leaves every peripheral unchanged that is on
\* another machine or is not named in the payload, removes none, and adds
\* only peripherals of m that the payload names; a report that is refused
\* changes nothing.
C15_ReportTouchesOnlyNamedPeripherals ==
    [][RouteStep("cc_register_peripherals") =>
       \A call \in ReportCalls :
          cc_register_peripherals(call[1], call[2], call[3]) =>
              /\ Len(peripherals') >= Len(peripherals)
              /\ \A i \in PeripheralIds :
                    (\/ peripherals[i].machine_id # call[2]
                     \/ peripherals[i].name \notin ReportedNames(call[3])
                     \/ resp'.code # 200) => peripherals'[i] = peripherals[i]
              /\ \A i \in (Len(peripherals) + 1)..Len(peripherals') :
                    /\ resp'.code = 200
                    /\ peripherals'[i].machine_id = call[2]
                    /\ peripherals'[i].name \in ReportedNames(call[3])]_vars

\* C15 witness: after a report a machine has two peripherals with different
\* timestamps, the older one left alone by the report, and another machine
\* has a peripheral too.
C15_Witness ==
    /\ resp.op = "cc_register_peripherals"
    /\ resp.code = 200
    /\ \E i, j, k \in PeripheralIds :
          /\ peripherals[i].machine_id = resp.target
          /\ peripherals[j].machine_id = resp.target
          /\ peripherals[i].last_updated < peripherals[j].last_updated
          /\ peripherals[j].last_updated = now
          /\ peripherals[k].machine_id # resp.target

\* ======================================================================
\* Claims about the owner's view of the routes, checked under SpecRoutes
\* ======================================================================

\* C19: Route.get_by_user(u) returns every route that u owns and that is not
\* deleted, enabled or not, once each and with its item names, and no route
\* of another account.
C19_RoutesForUserReturnsOwned ==
    \A u \in Users :
        \A recs \in Route_get_by_user(u) :
            /\ {recs[i].id : i \in 1..Len(recs)}
                  = {r \in RouteIds : routes[r].user_id = u}
            /\ \A i, j \in 1..Len(recs) : recs[i].id = recs[j].id => i = j
            /\ \A i \in 1..Len(recs) : recs[i].item_names = Route_item_names(recs[i].id)

\* ======================================================================
\* Claims about route edits, checked under SpecEdit
\* ======================================================================

RouteFields == {"name", "source_peripheral_id", "dest_peripheral_id", "item_filter", "enabled"}

\* C18: a successful update of route r sets every field the body supplies to
\* the supplied value and leaves every other field of r as it was; its item
\* names afterwards are exactly the supplied ones when the body supplies item
\* names, the empty list included, and are unchanged when it does not; no
\* other route and no other route's item names change.
C18_UpdateChangesExactlySupplied ==
    [][RouteStep("update_route") =>
       \A call \in EditCalls :
          (update_route(call[1], call[2], call[3]) /\ resp'.code = 200) =>
              LET r == call[2]
                  data == call[3]
              IN  /\ \A f \in RouteFields :
                        routes'[r][f] = IF f \in data.given THEN data[f] ELSE routes[r][f]
                  /\ routes'[r].user_id = routes[r].user_id
                  /\ routes'[r].created_at = routes[r].created_at
                  /\ ItemsOf(route_items', r) =
                        IF "item_names" \in data.given THEN data.item_names
                        ELSE ItemsOf(route_items, r)
                  /\ \A q \in RouteIds \ {r} :
                        /\ routes'[q] = routes[q]
                        /\ ItemsOf(route_items', q) = ItemsOf(route_items, q)]_vars

\* C18 witness: an update has left a renamed route without item names and
\* with its filter, while another route still has its item names.
C18_Witness ==
    /\ resp.op = "update_route"
    /\ resp.code = 200
    /\ resp.target \in RouteIds
    /\ routes[resp.target].name = "renamed"
    /\ routes[resp.target].item_filter = "iron"
    /\ Route_item_names(resp.target) = <<>>
    /\ \E q \in RouteIds : q # resp.target /\ Route_item_names(q) # <<>>

\* ------------------------------------------ Claims about the item resolver
\* The token as it is compared: without regard to case or to the blanks
\* around it.
Token == strip(lower(item_input))

\* The entries of the catalog each tier matches.
ExactTier == {i \in 1..Len(item_list) : lower(item_list[i]) = Token}

AbbreviationTier ==
    LET parts == split(Token, "_")
        n == Len(parts)
    IN  IF n >= 2 /\ parts[n] \in DOMAIN ABBREVIATION_MAP
        THEN {i \in 1..Len(item_list) :
                 lower(item_list[i])
                     = join("_", SubSeq(parts, 1, n - 1)
                                   \o <<ABBREVIATION_MAP[parts[n]]>>)}
        ELSE {}

PrefixTier ==
    {i \in 1..Len(item_list) : startswith(lower(item_list[i]), Token)}

SimilarityTier ==
    {i \in 1..Len(item_list) :
        ScoreGe(similarity(Token, item_list[i]), FUZZY_MATCH_THRESHOLD)}

Tiers ==
    <<[kind |-> "exact", entries |-> ExactTier],
      [kind |-> "abbreviation", entries |-> AbbreviationTier],
      [kind |-> "prefix", entries |-> PrefixTier],
      [kind |-> "fuzzy", entries |-> SimilarityTier]>>

\* C20: resolve(token, catalog) returns a match of the highest tier that
\* has any match, in the order exact, abbreviation expansion, prefix,
\* similarity, comparing without regard to case: an entry equal to the
\* token is returned with kind exact; otherwise, for a token whose last
\* part after a "_" is a known abbreviation, an entry equal to the expanded
\* token is returned with kind abbreviation; a prefix or similarity match
\* is returned only when no higher tier matches, and nothing is returned
\* when no tier matches.
C20_HighestTierWins ==
    matched # <<>> =>
        IF \A k \in 1..4 : Tiers[k].entries = {}
        THEN matched[1] = NoMatch
        ELSE LET k == CHOOSE k \in 1..4 :
                          /\ Tiers[k].entries # {}
                          /\ \A h \in 1..(k - 1) : Tiers[h].entries = {}
             IN  /\ matched[1].found
                 /\ matched[1].kind = Tiers[k].kind
                 /\ \E i \in Tiers[k].entries : matched[1].item = item_list[i]

\* An abbreviation is resolved to its expansion although the prefix tier
\* alone would have returned a shorter entry.
C20_Witness ==
    /\ matched # <<>>
    /\ matched[1].kind = "abbreviation"
    /\ \E i \in PrefixTier : Len(item_list[i]) < Len(matched[1].item)

\* ------------------------------------------- Claims about filterCatalog
\* The positions of the catalog whose entry is the token's abbreviation
\* expansion, and those that match by prefix only.
ExpansionEntries == AbbreviationTier \ ExactTier
PrefixOnlyEntries == PrefixTier \ (ExactTier \cup AbbreviationTier)
FuzzyOnlyEntries == SimilarityTier \ (ExactTier \cup AbbreviationTier \cup PrefixTier)

\* Entry e of the catalog stands before entry f in the list returned.
RankedAbove(e, f) ==
    LET res == filtered[1]
    IN  \E p, q \in 1..Len(res) :
            p < q /\ res[p] = item_list[e] /\ res[q] = item_list[f]

\* C21: filterCatalog(token, catalog) ranks the entry equal to the token's
\* abbreviation expansion above every entry that matches only by prefix,
\* every prefix match above every fuzzy match, and fuzzy matches by
\* descending similarity.
C21_FilterRanksByTier ==
    (filtered # <<>> /\ Len(item_input) > 0) =>
        /\ \A e \in ExpansionEntries, f \in PrefixOnlyEntries : RankedAbove(e, f)
        /\ \A e \in PrefixOnlyEntries, f \in FuzzyOnlyEntries : RankedAbove(e, f)
        /\ \A e, f \in FuzzyOnlyEntries :
               ScoreGt(similarity(Token, item_list[e]), similarity(Token, item_list[f]))
                   => RankedAbove(e, f)

\* ------------------------------------- Claims about the lower tiers of resolve
\* position i of the catalog is the first of the shortest entries that have
\* the token as a prefix.
FirstShortestPrefix(i) ==
    /\ i \in PrefixTier
    /\ \A k \in PrefixTier :
           \/ Len(item_list[i]) < Len(item_list[k])
           \/ Len(item_list[i]) = Len(item_list[k]) /\ i <= k

FirstMostSimilar(i) ==
    /\ i \in 1..Len(item_list)
    /\ \A k \in 1..Len(item_list) :
           \/ ScoreGt(similarity(Token, item_list[i]), similarity(Token, item_list[k]))
           \/ /\ ~ScoreGt(similarity(Token, item_list[k]), similarity(Token, item_list[i]))
              /\ i <= k

Sweeping(t) == pc[t] \in {"threshold", "select", "now", "for"}

\* C24: after any sequence of start() and stop() calls at most one sweep
\* loop is alive, so that two sweeps never run at the same time.
C24_SweepsNeverOverlap ==
    \A t, u \in Threads : (Sweeping(t) /\ Sweeping(u)) => t = u

\* ------------------------------------------- Claims about the credential check
\* C25: a machine-facing call that presents a valid credential in the
\* header is authenticated whether or not the request carries a JSON body,
\* the fetch-commands poll with its machine id in the query included: it is
\* never answered 401.
C25_HeaderCredentialAccepted ==
    [][RouteStep("cc_get_commands") =>
          \A req \in RequestInputs, m \in MachineIdInputs :
              (req.header \in Keys /\ cc_get_commands(req, m)) => resp'.code # 401]_vars

\* ------------------------------------------- Claims about concurrent registers
\* C26: in every reachable state at most one machine record exists for a
\* given (owner, credential) pair, also when two register calls with the
\* same credential interleave.
C26_OneRecordPerCredential ==
    \A i, j \in MachineIds :
        (/\ machines[i].api_key_id # NoKey
         /\ machines[i].user_id = machines[j].user_id
         /\ machines[i].api_key_id = machines[j].api_key_id) => i = j

\* ------------------------------------------- Claims about the sweep's write
\* C27: a sweep never sets a machine offline whose stored last-seen is
\* within the timeout at the moment of the write: a machine that checked in
\* after the sweep read the online machines is not demoted by that sweep
\* and its last-seen is not overwritten by it.
C27_SweepSparesFreshMachine ==
    [][\A t \in Threads, m \in MachineIds :
          (SweepStepOn(t, m) /\ now - machines[m].last_seen <= MACHINE_TIMEOUT)
              => machines'[m] = machines[m]]_vars

====
